---- MODULE Spec2Model ----
(***************************************************************************)
(* battwhy: the counter-delta sampler (battwhy/cpu.py) and the diagnosis   *)
(* engine (battwhy/diagnosis.py).                                          *)
(*                                                                         *)
(* Floats are modelled exactly: a percentage is a rational <<num, den>>    *)
(* with den > 0, compared by cross-multiplication; power draw is a whole   *)
(* number of watts.                                                        *)
(***************************************************************************)
EXTENDS Integers, Sequences, FiniteSets, TLC

(***************************************************************************)
(* Bounds of the model.                                                    *)
(***************************************************************************)
\* largest value of a single active bucket of /proc/stat that is enumerated
MaxTick == 2
\* process ids enumerated in /proc are 1..MaxPid
MaxPid == 2
\* longest top_processes list handed to generate_diagnosis
MaxTop == 4
\* longest process name (comm) enumerated in /proc/[pid]/stat
MaxName == 2

None == "None"

VARIABLES
  \* ---- sample_cpu_usage / get_top_processes (cpu.py) ----
  pc,                   \* position inside get_top_processes -> sample_cpu_usage
  cpu_stat_start,       \* cpu.py:170
  process_times_start,  \* cpu.py:174
  cpu_stat_end,         \* cpu.py:194
  process_times_end,    \* cpu.py:197
  process_usage,        \* cpu.py:225, the list sample_cpu_usage returns
  sample_overall,       \* cpu.py:220/222, the overall percent sample_cpu_usage returns
  raised,               \* the exception that ended the call, or None
  io_log,               \* reads of the counter sources and suspends, in order
  proc_stat,            \* /proc/stat as it was at the latest read_cpu_stat()
  \* ---- values handed from the sampler to the diagnosis engine ----
  overall_cpu_percent,  \* cpu.py:262 overall_cpu / diagnosis.py:71
  top_processes,        \* cpu.py:263 processes[:top_n] / diagnosis.py:72
  \* ---- generate_diagnosis (diagnosis.py) ----
  dpc,                  \* position inside generate_diagnosis
  diagnosis,            \* diagnosis.py:89, [issues, recommendations, severity]
  battery_status,       \* diagnosis.py:92
  power_watts,          \* diagnosis.py:94, <<>> for None, <<w>> for w watts
  high_cpu_processes,   \* diagnosis.py:116
  active_devices,       \* diagnosis.py:73
  wakeup_info,          \* diagnosis.py:74, <<>> for None, <<dict>> for a dict
  diag_raised,          \* the exception that ended generate_diagnosis, or None
  \* ---- get_process_cpu_time (cpu.py) ----
  ppc,                  \* position inside get_process_cpu_time
  proc_pid_stat,        \* the file /proc/[pid]/stat as the kernel wrote it
  line,                 \* cpu.py:88, the characters read from the file
  cpu_time              \* the pair (utime, stime) get_process_cpu_time returns

cpuVars == <<pc, cpu_stat_start, process_times_start, cpu_stat_end,
             process_times_end, process_usage, sample_overall, raised, io_log,
             proc_stat>>
handVars == <<overall_cpu_percent, top_processes>>
diagVars == <<dpc, diagnosis, battery_status, power_watts, high_cpu_processes,
              active_devices, wakeup_info, diag_raised>>
parseVars == <<ppc, proc_pid_stat, line, cpu_time>>
vars == <<cpuVars, handVars, diagVars, parseVars>>

(***************************************************************************)
(* Rationals                                                               *)
(***************************************************************************)
Rat(n, d) == IF d < 0 THEN <<-n, -d>> ELSE <<n, d>>
RatLT(a, b) == a[1] * b[2] < b[1] * a[2]
RatLE(a, b) == a[1] * b[2] <= b[1] * a[2]
RatGT(a, b) == RatLT(b, a)
RatGE(a, b) == RatLE(b, a)
Zero == <<0, 1>>
Whole(n) == <<n, 1>>

\* (n / d) * 100.0 of Python; a zero denominator is the ZeroDivisionError
Percent(n, d) == Rat(100 * n, d)
IsZeroDivision(r) == r[2] = 0

(***************************************************************************)
(* CPUStat (cpu.py:9-38)                                                   *)
(***************************************************************************)
Fields == <<"user", "nice", "system", "idle", "iowait", "irq", "softirq",
            "steal", "guest", "guest_nice">>

CPUStat(values) == [f \in {Fields[i] : i \in 1..10} |->
                      values[CHOOSE i \in 1..10 : Fields[i] = f]]

total_idle(s) == s.idle + s.iowait

total_active(s) == s.user + s.nice + s.system + s.irq + s.softirq +
                   s.steal + s.guest + s.guest_nice

total(s) == total_idle(s) + total_active(s)

(***************************************************************************)
(* read_cpu_stat (cpu.py:41-72).  The file is missing, or has a first line *)
(* made of a leading token and the integers after it.                      *)
(***************************************************************************)
Pad10(values) == [i \in 1..10 |-> IF i <= Len(values) THEN values[i] ELSE 0]

\* slip: a first line without the marker is read as all-zero counters
read_cpu_stat_lenient(file) ==
  IF ~file.exists THEN [exc |-> "RuntimeError", stat |-> None]
  ELSE IF file.marker # "cpu" THEN [exc |-> None, stat |-> CPUStat(Pad10(<<>>))]
  ELSE [exc |-> None, stat |-> CPUStat(Pad10(file.values))]

\* the result is [exc |-> the exception raised or None, stat |-> the CPUStat]
read_cpu_stat(file) ==
  IF ~file.exists THEN [exc |-> "RuntimeError", stat |-> None]
  ELSE IF file.marker # "cpu" THEN [exc |-> "RuntimeError", stat |-> None]
  ELSE [exc |-> None, stat |-> CPUStat(Pad10(file.values))]

(***************************************************************************)
(* Contents of /proc/stat that are enumerated.  A snapshot has idle in     *)
(* IdleValues and at most one other bucket at 1..MaxTick; a short first    *)
(* line has only the four guaranteed fields.                               *)
(***************************************************************************)
IdleValues == {0, 1000}

Bump(values, i, v) == [values EXCEPT ![i] = v]

StatValues ==
  LET base == {Bump([i \in 1..10 |-> 0], 4, idle) : idle \in IdleValues}
  IN  base \cup {Bump(b, i, v) : b \in base, i \in (1..10) \ {4}, v \in 1..MaxTick}

StatFile(values) == [exists |-> TRUE, marker |-> "cpu", values |-> values]

BadStatFiles == {[exists |-> FALSE, marker |-> "", values |-> <<>>],
                 [exists |-> TRUE, marker |-> "intr", values |-> <<>>]}

StatFiles ==
  BadStatFiles
    \cup {StatFile(v) : v \in StatValues}
    \cup {StatFile(SubSeq(v, 1, 4)) : v \in StatValues}

\* the smaller family used when the process table is the subject
StatFilesFew ==
  BadStatFiles
    \cup {StatFile(Bump(Bump([i \in 1..10 |-> 0], 4, idle), 1, user)) :
            idle \in IdleValues, user \in {0, 2}}

(***************************************************************************)
(* The process table: what get_process_cpu_time (cpu.py:75-121) returns    *)
(* for each numeric entry of /proc; <<0, 0>> also stands for a pid whose   *)
(* stat file is absent, unreadable or malformed.                           *)
(***************************************************************************)
Pids == 1..MaxPid
ProcTimes == {<<0, 0>>, <<1, 0>>, <<0, 1>>, <<1, 1>>}

ProcTables == [Pids -> ProcTimes]
\* only pid 1 ever accumulates time
ProcTablesFew == {t \in ProcTables : \A p \in Pids \ {1} : t[p] = <<0, 0>>}

\* cpu.py:177-188, 198-209: keep the pids with utime > 0 or stime > 0
snapshot_processes(table) ==
  [p \in {q \in Pids : table[q][1] > 0 \/ table[q][2] > 0} |-> table[p]]

\* get_process_name (cpu.py:124-147): the comm of the pid, "PID n" otherwise
Comm == <<"alpha", "beta", "gamma", "delta", "epsilon", "zeta", "eta", "theta">>
get_process_name(pid) == IF pid \in DOMAIN Comm THEN Comm[pid] ELSE "PID"

(***************************************************************************)
(* sample_cpu_usage (cpu.py:159-248)                                       *)
(***************************************************************************)
\* the call of get_top_processes begins; generate_diagnosis is not running
InitSample ==
  /\ pc = "stat_start"
  /\ cpu_stat_start = None
  /\ process_times_start = None
  /\ cpu_stat_end = None
  /\ process_times_end = None
  /\ process_usage = None
  /\ sample_overall = None
  /\ raised = None
  /\ io_log = <<>>
  /\ proc_stat = None
  /\ overall_cpu_percent = None
  /\ top_processes = None
  /\ dpc = "idle"
  /\ diagnosis = None
  /\ battery_status = None
  /\ power_watts = None
  /\ high_cpu_processes = None
  /\ active_devices = None
  /\ wakeup_info = None
  /\ diag_raised = None
  /\ ppc = "idle"
  /\ proc_pid_stat = None
  /\ line = None
  /\ cpu_time = None

\* cpu.py:170: cpu_stat_start = read_cpu_stat()
ReadStatStart(files) ==
  /\ pc = "stat_start"
  /\ \E file \in files :
       LET r == read_cpu_stat(file) IN
       /\ io_log' = Append(io_log, "stat")
       /\ proc_stat' = file
       /\ IF r.exc # None
          THEN /\ pc' = "error"
               /\ raised' = r.exc
               /\ UNCHANGED cpu_stat_start
          ELSE /\ pc' = "procs_start"
               /\ cpu_stat_start' = r.stat
               /\ UNCHANGED raised
  /\ UNCHANGED <<parseVars, process_times_start, cpu_stat_end, process_times_end,
                 process_usage, sample_overall, handVars, diagVars>>

\* cpu.py:173-188: the first pass over /proc
ReadProcsStart(tables) ==
  /\ pc = "procs_start"
  /\ \E table \in tables : process_times_start' = snapshot_processes(table)
  /\ io_log' = Append(io_log, "procs")
  /\ pc' = "sleep"
  /\ UNCHANGED <<parseVars, proc_stat, cpu_stat_start, cpu_stat_end, process_times_end,
                 process_usage, sample_overall, raised, handVars, diagVars>>

\* cpu.py:191: time.sleep(duration)
Sleep ==
  /\ pc = "sleep"
  /\ io_log' = Append(io_log, "sleep")
  /\ pc' = "stat_end"
  /\ UNCHANGED <<parseVars, proc_stat, cpu_stat_start, process_times_start, cpu_stat_end,
                 process_times_end, process_usage, sample_overall, raised, handVars, diagVars>>

\* slip: the second global read does not wait for the suspend
ReadStatEndEarly(files) ==
  /\ pc \in {"sleep", "stat_end"}
  /\ \E file \in files :
       LET r == read_cpu_stat(file) IN
       /\ io_log' = Append(io_log, "stat")
       /\ proc_stat' = file
       /\ IF r.exc # None
          THEN /\ pc' = "error"
               /\ raised' = r.exc
               /\ UNCHANGED cpu_stat_end
          ELSE /\ pc' = "procs_end"
               /\ cpu_stat_end' = r.stat
               /\ UNCHANGED raised
  /\ UNCHANGED <<parseVars, cpu_stat_start, process_times_start, process_times_end,
                 process_usage, sample_overall, handVars, diagVars>>

\* cpu.py:194: cpu_stat_end = read_cpu_stat()
ReadStatEnd(files) ==
  /\ pc = "stat_end"
  /\ \E file \in files :
       LET r == read_cpu_stat(file) IN
       /\ io_log' = Append(io_log, "stat")
       /\ proc_stat' = file
       /\ IF r.exc # None
          THEN /\ pc' = "error"
               /\ raised' = r.exc
               /\ UNCHANGED cpu_stat_end
          ELSE /\ pc' = "procs_end"
               /\ cpu_stat_end' = r.stat
               /\ UNCHANGED raised
  /\ UNCHANGED <<parseVars, cpu_stat_start, process_times_start, process_times_end,
                 process_usage, sample_overall, handVars, diagVars>>

\* cpu.py:196-209: the second pass over /proc
ReadProcsEnd(tables) ==
  /\ pc = "procs_end"
  /\ \E table \in tables : process_times_end' = snapshot_processes(table)
  /\ io_log' = Append(io_log, "procs")
  /\ pc' = "compute"
  /\ UNCHANGED <<parseVars, proc_stat, cpu_stat_start, process_times_start, cpu_stat_end,
                 process_usage, sample_overall, raised, handVars, diagVars>>

\* slip: >= lets an unchanged total through to the division
total_advanced_ge(total_start, total_end) == total_end >= total_start

\* cpu.py:217, 236: the guard on the global delta
total_advanced(total_start, total_end) == total_end > total_start

\* slip: the active time of the end snapshot is not reduced by the start's
overall_percent_no_delta(stat_start, stat_end) ==
  IF total(stat_end) > total(stat_start)
  THEN Percent(total_active(stat_end), total(stat_end) - total(stat_start))
  ELSE Zero

\* cpu.py:217-222
overall_percent(stat_start, stat_end) ==
  IF total_advanced(total(stat_start), total(stat_end))
  THEN Percent(total_active(stat_end) - total_active(stat_start),
               total(stat_end) - total(stat_start))
  ELSE Zero

\* slip: intersection of the two pid sets instead of their union
all_pids_common(times_start, times_end) == DOMAIN times_start \cap DOMAIN times_end

\* cpu.py:226
all_pids(times_start, times_end) == DOMAIN times_start \cup DOMAIN times_end

\* cpu.py:229-230: dict.get(pid, (0, 0))
times_of(times, pid) == IF pid \in DOMAIN times THEN times[pid] ELSE <<0, 0>>

\* cpu.py:232-234
cpu_ticks(start_times, end_times) ==
  (end_times[1] + end_times[2]) - (start_times[1] + start_times[2])

\* slip: >= 0.1 keeps the entry that sits on the threshold
visible_ge(cpu_percent) == RatGE(cpu_percent, <<1, 10>>)

\* cpu.py:241: cpu_percent > 0.1
visible(cpu_percent) == RatGT(cpu_percent, <<1, 10>>)

\* slip: reverse=True dropped, the list comes out ascending
InsertAsc(sorted, x) ==
  LET k == Cardinality({i \in 1..Len(sorted) :
                          RatLE(sorted[i].cpu_percent, x.cpu_percent)})
  IN  SubSeq(sorted, 1, k) \o <<x>> \o SubSeq(sorted, k + 1, Len(sorted))

\* cpu.py:246: list.sort(key=cpu_percent, reverse=True), a stable sort
InsertDesc(sorted, x) ==
  LET k == Cardinality({i \in 1..Len(sorted) :
                          RatGE(sorted[i].cpu_percent, x.cpu_percent)})
  IN  SubSeq(sorted, 1, k) \o <<x>> \o SubSeq(sorted, k + 1, Len(sorted))

RECURSIVE sort_desc(_)
sort_desc(usage) ==
  IF usage = <<>> THEN <<>>
  ELSE InsertDesc(sort_desc(SubSeq(usage, 1, Len(usage) - 1)), usage[Len(usage)])

\* the orders in which a Python set may be iterated
Orders(S) == {o \in [1..Cardinality(S) -> S] : \A i, j \in DOMAIN o : i # j => o[i] # o[j]}

\* cpu.py:228-243 for one pid: its percent, and whether it is appended
process_percent(pid, times_start, times_end, stat_start, stat_end) ==
  Percent(cpu_ticks(times_of(times_start, pid), times_of(times_end, pid)),
          total(stat_end) - total(stat_start))

computes_percent(pid, times_start, times_end, stat_start, stat_end) ==
  /\ cpu_ticks(times_of(times_start, pid), times_of(times_end, pid)) > 0
  /\ total_advanced(total(stat_start), total(stat_end))

\* cpu.py:225-243 for the pids taken in the given order
collect_usage(order, times_start, times_end, stat_start, stat_end) ==
  LET kept == SelectSeq(order, LAMBDA pid :
                /\ computes_percent(pid, times_start, times_end, stat_start, stat_end)
                /\ visible(process_percent(pid, times_start, times_end, stat_start, stat_end)))
  IN  [i \in 1..Len(kept) |->
         [pid |-> kept[i], name |-> get_process_name(kept[i]),
          cpu_percent |-> process_percent(kept[i], times_start, times_end,
                                          stat_start, stat_end)]]

\* cpu.py:211-248
Compute ==
  /\ pc = "compute"
  /\ \E order \in Orders(all_pids(process_times_start, process_times_end)) :
       LET overall == overall_percent(cpu_stat_start, cpu_stat_end)
           divides == {pid \in all_pids(process_times_start, process_times_end) :
                         computes_percent(pid, process_times_start, process_times_end,
                                          cpu_stat_start, cpu_stat_end)}
       IN
       IF \/ IsZeroDivision(overall)
          \/ \E pid \in divides :
               IsZeroDivision(process_percent(pid, process_times_start, process_times_end,
                                              cpu_stat_start, cpu_stat_end))
       THEN /\ pc' = "error"
            /\ raised' = "ZeroDivisionError"
            /\ UNCHANGED <<sample_overall, process_usage>>
       ELSE /\ pc' = "sampled"
            /\ sample_overall' = overall
            /\ process_usage' = sort_desc(collect_usage(order, process_times_start,
                                   process_times_end, cpu_stat_start, cpu_stat_end))
            /\ UNCHANGED raised
  /\ UNCHANGED <<parseVars, proc_stat, cpu_stat_start, process_times_start, cpu_stat_end,
                 process_times_end, io_log, handVars, diagVars>>

(***************************************************************************)
(* get_top_processes (cpu.py:251-263)                                      *)
(***************************************************************************)
TopNs == {1, 5}

\* processes[:top_n]
slice_to(list, n) ==
  IF n >= 0 THEN SubSeq(list, 1, IF n < Len(list) THEN n ELSE Len(list))
  ELSE SubSeq(list, 1, IF Len(list) + n > 0 THEN Len(list) + n ELSE 0)

GetTopProcesses ==
  /\ pc = "sampled"
  /\ \E top_n \in TopNs :
       /\ overall_cpu_percent' = sample_overall
       /\ top_processes' = slice_to(process_usage, top_n)
  /\ pc' = "done"
  /\ UNCHANGED <<parseVars, proc_stat, cpu_stat_start, process_times_start, cpu_stat_end,
                 process_times_end, process_usage, sample_overall, raised, io_log,
                 diagVars>>

\* cli.py:213-218: main catches whatever get_top_processes raised, warns,
\* and goes on with 0.0 and an empty list
MainExcept ==
  /\ pc = "error"
  /\ overall_cpu_percent' = Zero
  /\ top_processes' = <<>>
  /\ pc' = "warned"
  /\ UNCHANGED <<parseVars, proc_stat, cpu_stat_start, process_times_start, cpu_stat_end,
                 process_times_end, process_usage, sample_overall, raised, io_log,
                 diagVars>>

\* global counters are the subject: every bucket varies, one process
NextCpu ==
  \/ ReadStatStart(StatFiles)
  \/ ReadProcsStart(ProcTablesFew)
  \/ Sleep
  \/ ReadStatEnd(StatFiles)
  \/ ReadProcsEnd(ProcTablesFew)
  \/ Compute
  \/ GetTopProcesses
  \/ MainExcept

SpecCpu == InitSample /\ [][NextCpu]_vars

\* the process table is the subject: every pid varies, two buckets
NextProc ==
  \/ ReadStatStart(StatFilesFew)
  \/ ReadProcsStart(ProcTables)
  \/ Sleep
  \/ ReadStatEnd(StatFilesFew)
  \/ ReadProcsEnd(ProcTables)
  \/ Compute
  \/ GetTopProcesses
  \/ MainExcept

SpecProc == InitSample /\ [][NextProc]_vars

(***************************************************************************)
(* Properties of the sampler                                               *)
(***************************************************************************)
\* sample_cpu_usage has returned
Sampled == pc \in {"sampled", "done"}

GrandTotal(s) == s.user + s.nice + s.system + s.idle + s.iowait + s.irq +
                 s.softirq + s.steal + s.guest + s.guest_nice
GlobalDelta == GrandTotal(cpu_stat_end) - GrandTotal(cpu_stat_start)
NonDecreasing == \A i \in 1..10 : cpu_stat_end[Fields[i]] >= cpu_stat_start[Fields[i]]

\* utime + stime of a pid in a snapshot, 0 when the pid is not in it
TicksIn(times, pid) == IF pid \in DOMAIN times THEN times[pid][1] + times[pid][2] ELSE 0
TickDelta(pid) == TicksIn(process_times_end, pid) - TicksIn(process_times_start, pid)
Reported(pid) == \E i \in 1..Len(process_usage) : process_usage[i].pid = pid

\* C4: when each of the ten counters of the after snapshot is >= the same
\* counter of the before snapshot, the overall percent that sample_cpu_usage
\* returns lies in [0, 100].
C4_OverallInRange ==
  (Sampled /\ NonDecreasing) =>
    /\ sample_overall[2] > 0
    /\ sample_overall[1] >= 0
    /\ sample_overall[1] <= 100 * sample_overall[2]

\* a non-decreasing pair with a utilisation strictly between 0 and 100
C4_Witness ==
  /\ Sampled /\ NonDecreasing /\ GlobalDelta > 0
  /\ sample_overall[1] > 0
  /\ sample_overall[1] < 100 * sample_overall[2]

\* C5: when the grand total of the after snapshot is <= that of the before
\* snapshot, sample_cpu_usage returns overall 0.0 and an empty per-process
\* list, and the call never ends in a division by zero.
C5_StalledIsZero ==
  /\ raised # "ZeroDivisionError"
  /\ (pc = "compute" /\ GlobalDelta <= 0) => ENABLED Compute
  /\ (Sampled /\ GlobalDelta <= 0) =>
       /\ sample_overall = <<0, 1>>
       /\ process_usage = <<>>

\* a stalled pair (equal totals) during which the process did accumulate ticks
C5_Witness ==
  /\ Sampled /\ GlobalDelta = 0
  /\ \E pid \in Pids : TickDelta(pid) > 0

\* C6: a pid absent from the before snapshot and present in the after one,
\* with a positive global delta, is reported with percent
\* 100 * (utime + stime) / global delta whenever that exceeds 0.1.
C6_NewProcessReported ==
  Sampled =>
    \A pid \in DOMAIN process_times_end \ DOMAIN process_times_start :
      (GlobalDelta > 0 /\ 1000 * TicksIn(process_times_end, pid) > GlobalDelta) =>
        \E i \in 1..Len(process_usage) :
          /\ process_usage[i].pid = pid
          /\ process_usage[i].cpu_percent =
               <<100 * TicksIn(process_times_end, pid), GlobalDelta>>

\* a pid seen only in the after snapshot is in the returned list
C6_Witness ==
  /\ Sampled
  /\ \E pid \in DOMAIN process_times_end \ DOMAIN process_times_start : Reported(pid)

\* C7 (as claimed): a process with ticks in the before snapshot that is
\* absent from the after snapshot yields a utilisation entry when the
\* global delta is positive.
C7_ExitedProcessReported ==
  Sampled =>
    \A pid \in DOMAIN process_times_start \ DOMAIN process_times_end :
      GlobalDelta > 0 => Reported(pid)

Descending(list, strict) ==
  \A i \in 1..(Len(list) - 1) :
    IF strict
    THEN list[i].cpu_percent[1] * list[i + 1].cpu_percent[2] >
           list[i + 1].cpu_percent[1] * list[i].cpu_percent[2]
    ELSE list[i].cpu_percent[1] * list[i + 1].cpu_percent[2] >=
           list[i + 1].cpu_percent[1] * list[i].cpu_percent[2]

\* C8 (as claimed): the lists returned by sample_cpu_usage and
\* get_top_processes are strictly descending by percentage.
C8_StrictlyDescending ==
  /\ Sampled => Descending(process_usage, TRUE)
  /\ pc = "done" => Descending(top_processes, TRUE)

\* C8 (amended): the lists returned by sample_cpu_usage and
\* get_top_processes are in non-increasing order of percentage; two
\* processes with the same tick delta are adjacent with equal percentages.
C8_NonIncreasing ==
  /\ Sampled => Descending(process_usage, FALSE)
  /\ pc = "done" => Descending(top_processes, FALSE)

\* two processes with the same tick delta were returned, with equal percentages
C8_Witness ==
  /\ pc = "done" /\ Len(top_processes) = 2
  /\ TickDelta(top_processes[1].pid) = TickDelta(top_processes[2].pid)
  /\ top_processes[1].cpu_percent = top_processes[2].cpu_percent

\* C9: no entry with percentage <= 0.1 is returned: a pid whose tick delta
\* is zero or negative, or whose share of the global delta is at most
\* 0.1%, is not in the list.
C9_ThresholdDrops ==
  Sampled =>
    /\ \A i \in 1..Len(process_usage) :
         10 * process_usage[i].cpu_percent[1] > process_usage[i].cpu_percent[2]
    /\ \A pid \in Pids :
         (TickDelta(pid) <= 0 \/ GlobalDelta <= 0 \/ 1000 * TickDelta(pid) <= GlobalDelta)
           => ~Reported(pid)

\* a process at exactly 0.1% of the global delta was dropped
C9_Witness ==
  /\ Sampled /\ GlobalDelta > 0
  /\ \E pid \in Pids : TickDelta(pid) > 0 /\ 1000 * TickDelta(pid) = GlobalDelta
                        /\ ~Reported(pid)

(***************************************************************************)
(* Diagnosis (diagnosis.py:8-26).  An issue is its message (without the    *)
(* formatted numbers), its severity tag, the names the message lists and   *)
(* the "and N more" count; a recommendation is its message and the process *)
(* it names.                                                               *)
(***************************************************************************)
Diagnosis == [issues |-> <<>>, recommendations |-> <<>>, severity |-> "unknown"]

add_issue(d, text, severity, detail, more) ==
  [d EXCEPT !.issues = Append(@, [text |-> text, severity |-> severity,
                                  detail |-> detail, more |-> more])]

add_recommendation(d, text, about) ==
  [d EXCEPT !.recommendations = Append(@, [text |-> text, about |-> about])]

set_severity(d, severity) == [d EXCEPT !.severity = severity]

(***************************************************************************)
(* generate_diagnosis (diagnosis.py:69-205)                                *)
(***************************************************************************)
\* dict.get(key, default)
dict_get(dict, key, default) == IF key \in DOMAIN dict THEN dict[key] ELSE default

\* str.lower() on the status strings of the power supply class
lower(str) ==
  CASE str = "Discharging" -> "discharging"
    [] str = "Charging" -> "charging"
    [] str = "Full" -> "full"
    [] str = "Not charging" -> "not charging"
    [] str = "Unknown" -> "unknown"
    [] OTHER -> str

\* slip: the early return is missing, the rules run in every battery state
after_status_no_return(status) == "power"

\* diagnosis.py:96, 99: the early return
after_status(status) == IF status # "discharging" THEN "done" ELSE "power"

\* diagnosis.py:97-98
not_discharging(d) ==
  set_severity(add_issue(d, "Battery is not discharging (charging or full)",
                         "low", <<>>, 0), "low")

\* slip: >= 20 instead of > 20
power_rule_ge(d, watts) ==
  IF watts = <<>> THEN d
  ELSE IF watts[1] >= 20
  THEN set_severity(add_issue(d, "Very high power draw", "high", <<>>, 0), "high")
  ELSE IF watts[1] > 15
  THEN LET d1 == add_issue(d, "High power draw", "medium", <<>>, 0)
       IN  IF d1.severity # "high" THEN set_severity(d1, "medium") ELSE d1
  ELSE IF watts[1] < 5
  THEN LET d1 == add_issue(d, "Low power draw (good)", "low", <<>>, 0)
       IN  IF d1.severity = "unknown" THEN set_severity(d1, "low") ELSE d1
  ELSE d

\* diagnosis.py:101-113
power_rule(d, watts) ==
  IF watts = <<>> THEN d
  ELSE IF watts[1] > 20
  THEN set_severity(add_issue(d, "Very high power draw", "high", <<>>, 0), "high")
  ELSE IF watts[1] > 15
  THEN LET d1 == add_issue(d, "High power draw", "medium", <<>>, 0)
       IN  IF d1.severity # "high" THEN set_severity(d1, "medium") ELSE d1
  ELSE IF watts[1] < 5
  THEN LET d1 == add_issue(d, "Low power draw (good)", "low", <<>>, 0)
       IN  IF d1.severity = "unknown" THEN set_severity(d1, "low") ELSE d1
  ELSE d

\* diagnosis.py:116
high_cpu(processes) ==
  SelectSeq(processes, LAMBDA p : RatGT(p.cpu_percent, Whole(10)))

\* slip: the medium band only sets the severity from unknown
cpu_rule_from_unknown(d, percent) ==
  IF RatGT(percent, Whole(50))
  THEN set_severity(add_issue(d, "Very high overall CPU usage", "high", <<>>, 0), "high")
  ELSE IF RatGT(percent, Whole(30))
  THEN LET d1 == add_issue(d, "High overall CPU usage", "medium", <<>>, 0)
       IN  IF d1.severity = "unknown" THEN set_severity(d1, "medium") ELSE d1
  ELSE d

\* diagnosis.py:117-123
cpu_rule(d, percent) ==
  IF RatGT(percent, Whole(50))
  THEN set_severity(add_issue(d, "Very high overall CPU usage", "high", <<>>, 0), "high")
  ELSE IF RatGT(percent, Whole(30))
  THEN LET d1 == add_issue(d, "High overall CPU usage", "medium", <<>>, 0)
       IN  IF d1.severity # "high" THEN set_severity(d1, "medium") ELSE d1
  ELSE d

\* slip: the tag of the several-process issue looks at the named three only
process_rule_top3(d, high) ==
  IF high = <<>> THEN d
  ELSE
    LET process_names == [i \in 1..(IF Len(high) < 3 THEN Len(high) ELSE 3) |-> high[i].name]
        any_over_20 == \E i \in 1..Len(high) : RatGT(high[i].cpu_percent, Whole(20))
        any_over_10 == \E i \in 1..Len(high) : RatGT(high[i].cpu_percent, Whole(10))
        d1 == IF Len(high) = 1
              THEN add_issue(d, "High CPU usage by process",
                             IF RatGT(high[1].cpu_percent, Whole(20)) THEN "high" ELSE "medium",
                             <<high[1].name>>, 0)
              ELSE add_issue(d, "High CPU usage by processes",
                             IF any_over_20 THEN "high" ELSE "medium",
                             process_names,
                             IF Len(high) > 3 THEN Len(high) - 3 ELSE 0)
    IN  IF d1.severity # "high" /\ any_over_20 THEN set_severity(d1, "high")
        ELSE IF d1.severity # "high" /\ any_over_10 THEN set_severity(d1, "medium")
        ELSE d1

\* diagnosis.py:125-145
process_rule(d, high) ==
  IF high = <<>> THEN d
  ELSE
    LET process_names == [i \in 1..(IF Len(high) < 3 THEN Len(high) ELSE 3) |-> high[i].name]
        any_over_20 == \E i \in 1..Len(high) : RatGT(high[i].cpu_percent, Whole(20))
        any_over_10 == \E i \in 1..Len(high) : RatGT(high[i].cpu_percent, Whole(10))
        d1 == IF Len(high) = 1
              THEN add_issue(d, "High CPU usage by process",
                             IF RatGT(high[1].cpu_percent, Whole(20)) THEN "high" ELSE "medium",
                             <<high[1].name>>, 0)
              ELSE add_issue(d, "High CPU usage by processes",
                             IF any_over_20 THEN "high" ELSE "medium",
                             process_names,
                             IF Len(high) > 3 THEN Len(high) - 3 ELSE 0)
    IN  IF d1.severity # "high" /\ any_over_20 THEN set_severity(d1, "high")
        ELSE IF d1.severity = "unknown" /\ any_over_10 THEN set_severity(d1, "medium")
        ELSE d1

\* diagnosis.py:148-151
devices_of(devices, device_type) ==
  SelectSeq(devices, LAMBDA dev : dev.device_type = device_type)

\* diagnosis.py:153-161
device_issues(devices) ==
  (IF devices_of(devices, "Wi-Fi") # <<>>
   THEN <<IF Len(devices_of(devices, "Wi-Fi")) > 1
          THEN "Wi-Fi interfaces active" ELSE "Wi-Fi interface active">>
   ELSE <<>>)
  \o (IF devices_of(devices, "Dedicated GPU") # <<>> THEN <<"Dedicated GPU active">> ELSE <<>>)
  \o (IF devices_of(devices, "Bluetooth") # <<>> THEN <<"Bluetooth adapter active">> ELSE <<>>)
  \o (IF Len(devices_of(devices, "USB")) > 3 THEN <<"Many active USB devices">> ELSE <<>>)

\* slip: the GPU branch adds no issue
device_rule_no_gpu(d, devices) ==
  IF device_issues(devices) = <<>> THEN d
  ELSE IF devices_of(devices, "Dedicated GPU") # <<>> THEN d
  ELSE IF devices_of(devices, "Wi-Fi") # <<>> \/ devices_of(devices, "Bluetooth") # <<>>
  THEN LET d1 == add_issue(d, "while on battery", "medium", device_issues(devices), 0)
       IN  IF d1.severity # "high" THEN set_severity(d1, "medium") ELSE d1
  ELSE d

\* slip: the Wi-Fi/Bluetooth branch is tested before the GPU branch
device_rule_wifi_first(d, devices) ==
  IF device_issues(devices) = <<>> THEN d
  ELSE IF devices_of(devices, "Wi-Fi") # <<>> \/ devices_of(devices, "Bluetooth") # <<>>
  THEN LET d1 == add_issue(d, "while on battery", "medium", device_issues(devices), 0)
       IN  IF d1.severity # "high" THEN set_severity(d1, "medium") ELSE d1
  ELSE IF devices_of(devices, "Dedicated GPU") # <<>>
  THEN set_severity(add_issue(d, "Dedicated GPU is active while on battery",
                              "high", <<>>, 0), "high")
  ELSE d

\* slip: any collected device issue without a GPU gives the combined issue
device_rule_any(d, devices) ==
  IF device_issues(devices) = <<>> THEN d
  ELSE IF devices_of(devices, "Dedicated GPU") # <<>>
  THEN set_severity(add_issue(d, "Dedicated GPU is active while on battery",
                              "high", <<>>, 0), "high")
  ELSE LET d1 == add_issue(d, "while on battery", "medium", device_issues(devices), 0)
       IN  IF d1.severity # "high" THEN set_severity(d1, "medium") ELSE d1

\* diagnosis.py:163-172
device_rule(d, devices) ==
  IF device_issues(devices) = <<>> THEN d
  ELSE IF devices_of(devices, "Dedicated GPU") # <<>>
  THEN set_severity(add_issue(d, "Dedicated GPU is active while on battery",
                              "high", <<>>, 0), "high")
  ELSE IF devices_of(devices, "Wi-Fi") # <<>> \/ devices_of(devices, "Bluetooth") # <<>>
  THEN LET d1 == add_issue(d, "while on battery", "medium", device_issues(devices), 0)
       IN  IF d1.severity # "high" THEN set_severity(d1, "medium") ELSE d1
  ELSE d

\* slip: the severity is raised to medium unless it is high
wakeup_rule_raise(d, info) ==
  IF info = <<>> \/ DOMAIN info[1] = {} THEN d
  ELSE IF dict_get(info[1], "wakeup_level", None) = "high"
  THEN LET d1 == add_issue(d, "High system wakeup rate", "medium", <<>>, 0)
       IN  IF d1.severity # "high" THEN set_severity(d1, "medium") ELSE d1
  ELSE d

\* slip: the severity is set to medium whatever it was
wakeup_rule_overwrite(d, info) ==
  IF info = <<>> \/ DOMAIN info[1] = {} THEN d
  ELSE IF dict_get(info[1], "wakeup_level", None) = "high"
  THEN set_severity(add_issue(d, "High system wakeup rate", "medium", <<>>, 0), "medium")
  ELSE d

\* diagnosis.py:174-180; None and the empty dict are falsy
wakeup_rule(d, info) ==
  IF info = <<>> \/ DOMAIN info[1] = {} THEN d
  ELSE IF dict_get(info[1], "wakeup_level", None) = "high"
  THEN LET d1 == add_issue(d, "High system wakeup rate", "medium", <<>>, 0)
       IN  IF d1.severity = "unknown" THEN set_severity(d1, "medium") ELSE d1
  ELSE d

\* diagnosis.py:183-185
recommend_process(d, high) ==
  IF high # <<>>
  THEN add_recommendation(d, "Consider closing or reducing activity of", high[1].name)
  ELSE d

\* diagnosis.py:187-188
recommend_gpu(d, devices) ==
  IF devices_of(devices, "Dedicated GPU") # <<>>
  THEN add_recommendation(d, "Consider switching to integrated graphics or using GPU power-saving mode", "")
  ELSE d

\* diagnosis.py:190-193
recommend_wifi(d, devices, discharging) ==
  IF devices_of(devices, "Wi-Fi") # <<>> /\ ~discharging
  THEN IF d.severity \in {"high", "medium"}
       THEN add_recommendation(d, "Consider disabling Wi-Fi if not needed", "")
       ELSE d
  ELSE d

\* diagnosis.py:195-196
recommend_bluetooth(d, devices) ==
  IF devices_of(devices, "Bluetooth") # <<>> /\ d.severity \in {"high", "medium"}
  THEN add_recommendation(d, "Consider disabling Bluetooth if not needed", "")
  ELSE d

\* slip: the threshold of the very-high band is used
recommend_power_20(d, watts) ==
  IF watts # <<>> /\ watts[1] # 0 /\ watts[1] > 20
  THEN add_recommendation(d, "Check for background processes and reduce system activity", "")
  ELSE d

\* diagnosis.py:198-199; None and 0 are falsy
recommend_power(d, watts) ==
  IF watts # <<>> /\ watts[1] # 0 /\ watts[1] > 15
  THEN add_recommendation(d, "Check for background processes and reduce system activity", "")
  ELSE d

\* diagnosis.py:201-203
default_severity(d) ==
  IF d.severity = "unknown" THEN set_severity(d, "low") ELSE d

(***************************************************************************)
(* Facts handed to generate_diagnosis                                      *)
(***************************************************************************)
\* battery_data["status"] as read_battery_data (battery.py:50-65) leaves it:
\* the stripped content of the status attribute, or None when unreadable
StatusValues == {"Discharging", "discharging", "Charging", "Full",
                 "Not charging", "Unknown", "", None}
PowerValues == {<<>>} \cup {<<w>> : w \in {3, 5, 15, 18, 20, 25}}

BatteryData ==
  {[status |-> st, power_watts |-> w] : st \in StatusValues, w \in PowerValues}
    \cup {[power_watts |-> w] : w \in PowerValues}

CpuPercents == {Whole(12), Whole(30), Whole(50), Whole(60)}
ProcPercents == {10, 20, 25}

\* lists as get_top_processes returns them: non-increasing percentages
TopProcessLists ==
  UNION {
    {[i \in 1..n |-> [pid |-> i, name |-> get_process_name(i),
                      cpu_percent |-> Whole(f[i])]] :
       f \in {g \in [1..n -> ProcPercents] : \A i \in 1..(n - 1) : g[i] >= g[i + 1]}}
    : n \in 0..MaxTop}

Device(device_type, name) == [device_type |-> device_type, name |-> name]
Repeat(n, x) == [i \in 1..n |-> x]

\* lists as get_active_devices (devices.py:294-318) builds them:
\* Wi-Fi, then GPUs, then USB, then Bluetooth
DeviceLists ==
  {Repeat(w, Device("Wi-Fi", "wlan0")) \o Repeat(g, Device("Dedicated GPU", "card1"))
     \o Repeat(u, Device("USB", "usb")) \o Repeat(b, Device("Bluetooth", "hci0")) :
     w \in 0..1, g \in 0..2, u \in {0, 4}, b \in 0..1}

WakeupInfos == {<<>>,
                <<[context_switches_per_sec |-> "unavailable"]>>,
                <<[wakeup_level |-> "high"]>>,
                <<[wakeup_level |-> "low"]>>}

(***************************************************************************)
(* generate_diagnosis, rule by rule.  An argument is drawn when the code   *)
(* first reads it.                                                         *)
(***************************************************************************)
\* diagnosis.py:89: the Diagnosis is constructed; the sampler is not running
InitDiagnose ==
  /\ pc = "idle"
  /\ cpu_stat_start = None
  /\ process_times_start = None
  /\ cpu_stat_end = None
  /\ process_times_end = None
  /\ process_usage = None
  /\ sample_overall = None
  /\ raised = None
  /\ io_log = <<>>
  /\ proc_stat = None
  /\ overall_cpu_percent = None
  /\ top_processes = None
  /\ dpc = "status"
  /\ diagnosis = Diagnosis
  /\ battery_status = None
  /\ power_watts = None
  /\ high_cpu_processes = None
  /\ active_devices = None
  /\ wakeup_info = None
  /\ diag_raised = None
  /\ ppc = "idle"
  /\ proc_pid_stat = None
  /\ line = None
  /\ cpu_time = None

\* diagnosis.py:93
is_discharging == battery_status = "discharging"

\* diagnosis.py:91-99
CheckStatus ==
  /\ dpc = "status"
  /\ \E battery_data \in BatteryData :
       LET status == dict_get(battery_data, "status", "") IN
       IF status = None
       THEN \* None.lower()
            /\ dpc' = "error"
            /\ diag_raised' = "AttributeError"
            /\ UNCHANGED <<diagnosis, battery_status, power_watts>>
       ELSE /\ battery_status' = lower(status)
            /\ power_watts' = dict_get(battery_data, "power_watts", <<>>)
            /\ dpc' = after_status(lower(status))
            /\ diagnosis' = IF lower(status) # "discharging"
                            THEN not_discharging(diagnosis) ELSE diagnosis
            /\ UNCHANGED diag_raised
  /\ UNCHANGED <<parseVars, high_cpu_processes, active_devices, wakeup_info, cpuVars, handVars>>

\* diagnosis.py:101-113
PowerRule ==
  /\ dpc = "power"
  /\ diagnosis' = power_rule(diagnosis, power_watts)
  /\ dpc' = "cpu"
  /\ UNCHANGED <<parseVars, battery_status, power_watts, high_cpu_processes, active_devices,
                 wakeup_info, diag_raised, cpuVars, handVars>>

\* diagnosis.py:115-123
CpuRule ==
  /\ dpc = "cpu"
  /\ \E percent \in CpuPercents, processes \in TopProcessLists :
       /\ overall_cpu_percent' = percent
       /\ top_processes' = processes
       /\ high_cpu_processes' = high_cpu(processes)
       /\ diagnosis' = cpu_rule(diagnosis, percent)
  /\ dpc' = "procs"
  /\ UNCHANGED <<parseVars, battery_status, power_watts, active_devices, wakeup_info,
                 diag_raised, cpuVars>>

\* diagnosis.py:125-145
ProcessRule ==
  /\ dpc = "procs"
  /\ diagnosis' = process_rule(diagnosis, high_cpu_processes)
  /\ dpc' = "devices"
  /\ UNCHANGED <<parseVars, battery_status, power_watts, high_cpu_processes, active_devices,
                 wakeup_info, diag_raised, cpuVars, handVars>>

\* diagnosis.py:147-172
DeviceRule ==
  /\ dpc = "devices"
  /\ \E devices \in DeviceLists :
       /\ active_devices' = devices
       /\ diagnosis' = device_rule(diagnosis, devices)
  /\ dpc' = "wakeups"
  /\ UNCHANGED <<parseVars, battery_status, power_watts, high_cpu_processes, wakeup_info,
                 diag_raised, cpuVars, handVars>>

\* diagnosis.py:174-180
WakeupRule ==
  /\ dpc = "wakeups"
  /\ \E info \in WakeupInfos :
       /\ wakeup_info' = info
       /\ diagnosis' = wakeup_rule(diagnosis, info)
  /\ dpc' = "finish"
  /\ UNCHANGED <<parseVars, battery_status, power_watts, high_cpu_processes, active_devices,
                 diag_raised, cpuVars, handVars>>

\* diagnosis.py:182-199
recommend(d, high, devices, discharging, watts) ==
  recommend_power(
    recommend_bluetooth(
      recommend_wifi(
        recommend_gpu(recommend_process(d, high), devices),
        devices, discharging),
      devices),
    watts)

\* diagnosis.py:182-205
Finish ==
  /\ dpc = "finish"
  /\ diagnosis' = default_severity(recommend(diagnosis, high_cpu_processes,
                                             active_devices, is_discharging, power_watts))
  /\ dpc' = "done"
  /\ UNCHANGED <<parseVars, battery_status, power_watts, high_cpu_processes, active_devices,
                 wakeup_info, diag_raised, cpuVars, handVars>>

NextDiag ==
  \/ CheckStatus
  \/ PowerRule
  \/ CpuRule
  \/ ProcessRule
  \/ DeviceRule
  \/ WakeupRule
  \/ Finish

SpecDiag == InitDiagnose /\ [][NextDiag]_vars

(***************************************************************************)
(* Properties of the diagnosis engine                                      *)
(***************************************************************************)
Rank(severity) ==
  CASE severity = "unknown" -> 0
    [] severity = "low" -> 1
    [] severity = "medium" -> 2
    [] severity = "high" -> 3

\* the step appended exactly one issue per tag of `tags` (in order)
\* and no recommendation
AddsIssues(tags) ==
  /\ Len(diagnosis'.issues) = Len(diagnosis.issues) + Len(tags)
  /\ SubSeq(diagnosis'.issues, 1, Len(diagnosis.issues)) = diagnosis.issues
  /\ \A i \in 1..Len(tags) :
       diagnosis'.issues[Len(diagnosis.issues) + i].severity = tags[i]
  /\ diagnosis'.recommendations = diagnosis.recommendations

\* C1: within one evaluation the overall severity never decreases from one
\* rule step to the next (unknown < low < medium < high), and the severity
\* of the returned Diagnosis is never unknown.
C1_SeverityMonotone ==
  /\ [][Rank(diagnosis'.severity) >= Rank(diagnosis.severity)]_vars
  /\ [](dpc = "done" => diagnosis.severity # "unknown")

\* an evaluation that went low (power), medium (overall CPU), then high
C1_Witness ==
  /\ dpc = "done" /\ diagnosis.severity = "high"
  /\ Len(diagnosis.issues) >= 3
  /\ diagnosis.issues[1].severity = "low"
  /\ diagnosis.issues[2].severity = "medium"
  /\ diagnosis.issues[3].severity = "high"

\* C2: when the battery status is not discharging, the returned Diagnosis
\* has exactly one issue, tagged low, no recommendation and severity low,
\* and no argument other than the battery facts has been read.
C2_NotDischarging ==
  (dpc = "done" /\ ~is_discharging) =>
    /\ Len(diagnosis.issues) = 1
    /\ diagnosis.issues[1].severity = "low"
    /\ diagnosis.recommendations = <<>>
    /\ diagnosis.severity = "low"
    /\ overall_cpu_percent = None
    /\ top_processes = None

\* returned for a battery that reports Charging with a power estimate above 20 W
C2_Witness ==
  /\ dpc = "done" /\ battery_status = "charging" /\ power_watts = <<25>>
  /\ Len(diagnosis.issues) = 1

\* C3 (as claimed): generate_diagnosis never ends in an error.
C3_Total == dpc # "error" /\ diag_raised = None

\* C10: the power rule, when discharging: > 20 W adds one high issue and
\* sets severity high; above 15 W up to 20 W adds one medium issue and sets
\* severity medium unless it is high; < 5 W adds one low issue and sets
\* severity low only if it is unknown; 5 W to 15 W, or no estimate, adds
\* nothing and changes nothing.
C10_PowerRule ==
  [][(dpc = "power" /\ dpc' = "cpu") =>
       /\ is_discharging
       /\ IF power_watts = <<>> THEN diagnosis' = diagnosis
          ELSE IF power_watts[1] > 20
          THEN AddsIssues(<<"high">>) /\ diagnosis'.severity = "high"
          ELSE IF power_watts[1] > 15
          THEN /\ AddsIssues(<<"medium">>)
               /\ diagnosis'.severity =
                    (IF diagnosis.severity = "high" THEN "high" ELSE "medium")
          ELSE IF power_watts[1] < 5
          THEN /\ AddsIssues(<<"low">>)
               /\ diagnosis'.severity =
                    (IF diagnosis.severity = "unknown" THEN "low" ELSE diagnosis.severity)
          ELSE diagnosis' = diagnosis]_vars

\* the power rule has run on exactly 20 W
C10_Witness ==
  /\ dpc = "cpu" /\ power_watts = <<20>>
  /\ Len(diagnosis.issues) = 1 /\ diagnosis.issues[1].severity = "medium"
  /\ diagnosis.severity = "medium"

\* the last issue of the diagnosis after the step
LastIssue == diagnosis'.issues[Len(diagnosis'.issues)]

\* C11: the overall-CPU rule, when discharging: > 50 adds one high issue
\* and sets severity high; above 30 up to 50 adds one medium issue and
\* raises severity to medium (also from low) unless it is high; <= 30 adds
\* nothing and leaves severity unchanged.
C11_CpuRule ==
  [][(dpc = "cpu" /\ dpc' = "procs") =>
       /\ is_discharging
       /\ IF overall_cpu_percent'[1] > 50 * overall_cpu_percent'[2]
          THEN /\ AddsIssues(<<"high">>)
               /\ LastIssue.text = "Very high overall CPU usage"
               /\ diagnosis'.severity = "high"
          ELSE IF overall_cpu_percent'[1] > 30 * overall_cpu_percent'[2]
          THEN /\ AddsIssues(<<"medium">>)
               /\ LastIssue.text = "High overall CPU usage"
               /\ diagnosis'.severity =
                    (IF diagnosis.severity = "high" THEN "high" ELSE "medium")
          ELSE diagnosis' = diagnosis]_<<dpc, vars>>

\* 50% of CPU after a low power draw: the severity went from low to medium
C11_Witness ==
  /\ dpc = "procs" /\ overall_cpu_percent = <<50, 1>>
  /\ Len(diagnosis.issues) = 2
  /\ diagnosis.issues[1].severity = "low"
  /\ diagnosis.issues[2].severity = "medium"
  /\ diagnosis.severity = "medium"

\* the processes of top_processes above 10%, in order
Over10 == SelectSeq(top_processes, LAMBDA p : p.cpu_percent[1] > 10 * p.cpu_percent[2])
AnyOver20 == \E i \in 1..Len(Over10) : Over10[i].cpu_percent[1] > 20 * Over10[i].cpu_percent[2]

\* C12: when discharging, the processes above 10% are collected whatever
\* the overall-CPU rule did; if there is one, exactly one issue names it,
\* tagged high if it is above 20% else medium; if there are several, exactly
\* one issue names the first three and counts the rest, tagged high if any
\* is above 20% else medium.  Severity becomes high if any is above 20%,
\* and otherwise medium only if it was unknown.
C12_ProcessRule ==
  /\ [](dpc \in {"procs", "devices", "wakeups", "finish", "done"} /\ is_discharging
          => high_cpu_processes = Over10)
  /\ [][(dpc = "procs" /\ dpc' = "devices") =>
          IF Over10 = <<>> THEN diagnosis' = diagnosis
          ELSE /\ AddsIssues(<<IF AnyOver20 THEN "high" ELSE "medium">>)
               /\ IF Len(Over10) = 1
                  THEN /\ LastIssue.text = "High CPU usage by process"
                       /\ LastIssue.detail = <<Over10[1].name>>
                       /\ LastIssue.more = 0
                  ELSE /\ LastIssue.text = "High CPU usage by processes"
                       /\ LastIssue.detail =
                            [i \in 1..(IF Len(Over10) > 3 THEN 3 ELSE Len(Over10)) |->
                               Over10[i].name]
                       /\ LastIssue.more = (IF Len(Over10) > 3 THEN Len(Over10) - 3 ELSE 0)
               /\ diagnosis'.severity =
                    (IF AnyOver20 THEN "high"
                     ELSE IF diagnosis.severity = "unknown" THEN "medium"
                     ELSE diagnosis.severity)]_vars

\* four processes at 20%: one medium issue naming three and one more, while
\* the severity set to low by the power rule stays low
C12_Witness ==
  /\ dpc = "devices" /\ Len(high_cpu_processes) = 4
  /\ diagnosis.severity = "low"
  /\ diagnosis.issues[Len(diagnosis.issues)].severity = "medium"
  /\ diagnosis.issues[Len(diagnosis.issues)].more = 1

\* some device of the inventory has this type
Has(devices, device_type) ==
  \E i \in 1..Len(devices) : devices[i].device_type = device_type

HasIssue(text) == \E i \in 1..Len(diagnosis.issues) : diagnosis.issues[i].text = text
HasRecommendation(text) ==
  \E i \in 1..Len(diagnosis.recommendations) : diagnosis.recommendations[i].text = text

\* C13: when discharging with a dedicated GPU in the inventory the device
\* rule adds exactly one issue, tagged high, about the GPU on battery, and
\* sets severity high; the returned Diagnosis has the integrated-graphics
\* recommendation and no Wi-Fi/Bluetooth/USB device issue, whatever else is
\* active and however low the power draw and CPU usage are.
C13_GpuRule ==
  /\ [][(dpc = "devices" /\ dpc' = "wakeups" /\ Has(active_devices', "Dedicated GPU")) =>
          /\ is_discharging
          /\ AddsIssues(<<"high">>)
          /\ LastIssue.text = "Dedicated GPU is active while on battery"
          /\ LastIssue.detail = <<>>
          /\ diagnosis'.severity = "high"]_<<dpc, vars>>
  /\ [](dpc = "done" /\ is_discharging /\ Has(active_devices, "Dedicated GPU") =>
          /\ HasRecommendation("Consider switching to integrated graphics or using GPU power-saving mode")
          /\ ~HasIssue("while on battery")
          /\ diagnosis.severity = "high")

\* 3 W, 12% CPU, and a GPU next to Wi-Fi, Bluetooth and four USB devices
C13_Witness ==
  /\ dpc = "done" /\ is_discharging
  /\ power_watts = <<3>> /\ overall_cpu_percent = <<12, 1>>
  /\ high_cpu_processes = <<>>
  /\ Has(active_devices, "Dedicated GPU") /\ Has(active_devices, "Wi-Fi")
  /\ Has(active_devices, "Bluetooth") /\ Has(active_devices, "USB")
  /\ Len(diagnosis.issues) = 2
  /\ diagnosis.issues[2].severity = "high"
  /\ diagnosis.severity = "high"

\* C14: without a dedicated GPU the device rule adds an issue exactly when
\* a Wi-Fi or a Bluetooth device is active: one combined issue tagged
\* medium, raising severity to medium unless it is high; an inventory of
\* USB devices only, more than three included, adds nothing.
C14_DeviceRule ==
  [][(dpc = "devices" /\ dpc' = "wakeups" /\ ~Has(active_devices', "Dedicated GPU")) =>
       IF Has(active_devices', "Wi-Fi") \/ Has(active_devices', "Bluetooth")
       THEN /\ AddsIssues(<<"medium">>)
            /\ LastIssue.text = "while on battery"
            /\ diagnosis'.severity =
                 (IF diagnosis.severity = "high" THEN "high" ELSE "medium")
       ELSE diagnosis' = diagnosis]_<<dpc, vars>>

\* four USB devices alone after a low power draw: still one issue, still low
C14_Witness ==
  /\ dpc = "wakeups" /\ Len(active_devices) = 4
  /\ \A i \in 1..4 : active_devices[i].device_type = "USB"
  /\ Len(diagnosis.issues) = 1 /\ diagnosis.severity = "low"

\* the wakeup facts carry the level high
LevelHigh(info) ==
  /\ info # <<>>
  /\ "wakeup_level" \in DOMAIN info[1]
  /\ info[1].wakeup_level = "high"

\* C15: a wakeup level of high adds exactly one medium issue and sets
\* severity to medium only if it is still unknown; any other level, or
\* absent wakeup facts, adds nothing and changes nothing.
C15_WakeupRule ==
  [][(dpc = "wakeups" /\ dpc' = "finish") =>
       IF LevelHigh(wakeup_info')
       THEN /\ AddsIssues(<<"medium">>)
            /\ LastIssue.text = "High system wakeup rate"
            /\ diagnosis'.severity =
                 (IF diagnosis.severity = "unknown" THEN "medium" ELSE diagnosis.severity)
       ELSE diagnosis' = diagnosis]_<<dpc, vars>>

\* a high wakeup rate after a low power draw: a medium issue, severity low
C15_Witness ==
  /\ dpc = "finish" /\ LevelHigh(wakeup_info)
  /\ diagnosis.severity = "low"
  /\ diagnosis.issues[Len(diagnosis.issues)].text = "High system wakeup rate"
  /\ diagnosis.issues[Len(diagnosis.issues)].severity = "medium"

\* C16: a returned Diagnosis for a discharging battery with a Wi-Fi device
\* active and a severity of medium or high carries the recommendation to
\* disable Wi-Fi.
C16_WifiRecommended ==
  (dpc = "done" /\ is_discharging /\ Has(active_devices, "Wi-Fi")
     /\ diagnosis.severity \in {"medium", "high"})
    => HasRecommendation("Consider disabling Wi-Fi if not needed")

\* the quiet scenario of C17: a draw in the 15-20 W band and nothing else
Quiet ==
  /\ dpc = "done" /\ is_discharging
  /\ power_watts # <<>> /\ power_watts[1] > 15 /\ power_watts[1] <= 20
  /\ overall_cpu_percent[1] <= 30 * overall_cpu_percent[2]
  /\ Over10 = <<>>
  /\ active_devices = <<>>
  /\ ~LevelHigh(wakeup_info)

\* C17: a discharging battery drawing between 15 and 20 W with overall CPU
\* at most 30%, no process above 10%, no device and no high wakeup level
\* gets severity medium, exactly one issue (the medium high-power-draw
\* issue) and exactly one recommendation (background processes).
C17_QuietMediumDraw ==
  Quiet =>
    /\ diagnosis.severity = "medium"
    /\ Len(diagnosis.issues) = 1
    /\ diagnosis.issues[1].text = "High power draw"
    /\ diagnosis.issues[1].severity = "medium"
    /\ Len(diagnosis.recommendations) = 1
    /\ diagnosis.recommendations[1].text =
         "Check for background processes and reduce system activity"

\* 18 W and 12% CPU with a low wakeup level
C17_Witness ==
  /\ Quiet /\ power_watts = <<18>> /\ overall_cpu_percent = <<12, 1>>
  /\ wakeup_info = <<[wakeup_level |-> "low"]>>
  /\ diagnosis.severity = "medium"

(***************************************************************************)
(* get_process_cpu_time (cpu.py:75-121).  Text is a sequence of one-       *)
(* character strings, so that splitting and searching are computed.        *)
(***************************************************************************)
Whitespace == {" ", "\n"}
DigitChars == <<"0", "1", "2", "3", "4", "5", "6", "7", "8", "9">>
IsDigit(c) == \E d \in 0..9 : DigitChars[d + 1] = c
DigitValue(c) == CHOOSE d \in 0..9 : DigitChars[d + 1] = c

\* str(n) of a natural number, as the kernel prints a counter
RECURSIVE str(_)
str(n) ==
  IF n < 10 THEN <<DigitChars[n + 1]>>
  ELSE str(n \div 10) \o <<DigitChars[(n % 10) + 1]>>

RECURSIVE digits_value(_)
digits_value(body) ==
  IF body = <<>> THEN 0
  ELSE 10 * digits_value(SubSeq(body, 1, Len(body) - 1)) + DigitValue(body[Len(body)])

\* int(token): an optional sign and decimal digits, else ValueError
int(token) ==
  LET signed == token # <<>> /\ token[1] \in {"+", "-"}
      body   == IF signed THEN Tail(token) ELSE token
  IN  IF body = <<>> \/ \E i \in 1..Len(body) : ~IsDigit(body[i])
      THEN [exc |-> "ValueError", value |-> 0]
      ELSE [exc |-> None,
            value |-> IF signed /\ token[1] = "-" THEN 0 - digits_value(body)
                      ELSE digits_value(body)]

\* str.split(): the maximal runs of non-whitespace characters, in order
RECURSIVE split_from(_, _, _)
split_from(s, i, token) ==
  IF i > Len(s) THEN (IF token = <<>> THEN <<>> ELSE <<token>>)
  ELSE IF s[i] \in Whitespace
  THEN (IF token = <<>> THEN <<>> ELSE <<token>>) \o split_from(s, i + 1, <<>>)
  ELSE split_from(s, i + 1, Append(token, s[i]))

split(s) == split_from(s, 1, <<>>)

\* str.find(ch): the 0-based index of the first occurrence, or -1
find(s, ch) ==
  IF \E i \in 1..Len(s) : s[i] = ch
  THEN (CHOOSE i \in 1..Len(s) : s[i] = ch /\ \A j \in 1..(i - 1) : s[j] # ch) - 1
  ELSE -1

\* str.rfind(ch): the 0-based index of the last occurrence, or -1
rfind(s, ch) ==
  IF \E i \in 1..Len(s) : s[i] = ch
  THEN (CHOOSE i \in 1..Len(s) : s[i] = ch /\ \A j \in (i + 1)..Len(s) : s[j] # ch) - 1
  ELSE -1

\* cpu.py:94-121: the parse of the characters read
parse_cpu_time(text) ==
  IF Len(split(text)) < 14 THEN <<0, 0>>
  ELSE
    LET comm_end == rfind(text, ")") IN
    IF comm_end = -1 THEN <<0, 0>>
    ELSE
      LET rest_parts == split(SubSeq(text, comm_end + 2, Len(text))) IN
      IF Len(rest_parts) < 13 THEN <<0, 0>>
      ELSE
        LET utime == int(rest_parts[12])
            stime == int(rest_parts[13])
        IN  IF utime.exc # None \/ stime.exc # None THEN <<0, 0>>
            ELSE <<utime.value, stime.value>>

\* ---- the files /proc/[pid]/stat that are enumerated ----
NameChars == {"a", " ", "(", ")"}
RECURSIVE Strings(_, _)
Strings(chars, n) ==
  IF n = 0 THEN {<<>>}
  ELSE Strings(chars, n - 1) \cup
       {Append(s, c) : s \in {t \in Strings(chars, n - 1) : Len(t) = n - 1}, c \in chars}
Names == Strings(NameChars, MaxName)

\* a counter field: the ticks the kernel printed, or damaged text
CounterFields ==
  {[ticks |-> <<n>>, text |-> str(n)] : n \in {0, 7, 42}}
    \cup {[ticks |-> <<>>, text |-> <<"x">>], [ticks |-> <<>>, text |-> <<"4", "x">>]}

\* how many fields follow the name: none, one too few, exactly, one more
FieldCounts == {0, 12, 13, 14}

\* state, ppid ... cmajflt (11 fields), utime, stime, cutime
fields_of(rec) ==
  SubSeq(<<<<"S">>>> \o [i \in 1..10 |-> str(100 + i)]
           \o <<rec.utime.text, rec.stime.text, str(99)>>,
         1, rec.nf)

RECURSIVE join(_)
join(tokens) ==
  IF tokens = <<>> THEN <<>> ELSE <<" ">> \o tokens[1] \o join(Tail(tokens))

\* the record 'pid (name) f1 f2 ...' and its final newline
stat_text(rec) ==
  str(rec.pid) \o <<" ", "(">> \o rec.name \o (IF rec.closed THEN <<")">> ELSE <<>>)
    \o join(fields_of(rec)) \o <<"\n">>

ProcPidStats ==
  [access : {"ok"}, pid : {1}, name : Names, closed : BOOLEAN,
   nf : FieldCounts, utime : CounterFields, stime : CounterFields]
    \cup [access : {"absent", "unreadable"}, pid : {1}, name : {<<"a">>}, closed : {TRUE},
          nf : {14}, utime : {[ticks |-> <<7>>, text |-> str(7)]},
          stime : {[ticks |-> <<7>>, text |-> str(7)]}]

InitParse ==
  /\ pc = "idle"
  /\ cpu_stat_start = None
  /\ process_times_start = None
  /\ cpu_stat_end = None
  /\ process_times_end = None
  /\ process_usage = None
  /\ sample_overall = None
  /\ raised = None
  /\ io_log = <<>>
  /\ proc_stat = None
  /\ overall_cpu_percent = None
  /\ top_processes = None
  /\ dpc = "idle"
  /\ diagnosis = None
  /\ battery_status = None
  /\ power_watts = None
  /\ high_cpu_processes = None
  /\ active_devices = None
  /\ wakeup_info = None
  /\ diag_raised = None
  /\ ppc = "open"
  /\ proc_pid_stat \in ProcPidStats
  /\ line = None
  /\ cpu_time = None

\* cpu.py:82-90: a missing or unreadable file gives (0, 0)
OpenStat ==
  /\ ppc = "open"
  /\ IF proc_pid_stat.access # "ok"
     THEN /\ cpu_time' = <<0, 0>>
          /\ ppc' = "returned"
          /\ UNCHANGED line
     ELSE /\ line' = stat_text(proc_pid_stat)
          /\ ppc' = "parse"
          /\ UNCHANGED cpu_time
  /\ UNCHANGED <<proc_pid_stat, cpuVars, handVars, diagVars>>

\* cpu.py:94-121
ParseStat ==
  /\ ppc = "parse"
  /\ cpu_time' = parse_cpu_time(line)
  /\ ppc' = "returned"
  /\ UNCHANGED <<proc_pid_stat, line, cpuVars, handVars, diagVars>>

NextParse ==
  \/ OpenStat
  \/ ParseStat

SpecParse == InitParse /\ [][NextParse]_vars

\* the name holds a closing parenthesis
NameHasClose == \E i \in 1..Len(proc_pid_stat.name) : proc_pid_stat.name[i] = ")"
BothNumeric == proc_pid_stat.utime.ticks # <<>> /\ proc_pid_stat.stime.ticks # <<>>

\* C18: for a record 'pid (name) f1 f2 ...' whose name is any mix of
\* letters, spaces, '(' and ')', get_process_cpu_time returns the 12th and
\* 13th fields after the last ')', whatever the name; without any ')', with
\* fewer than 13 fields after it, or with a non-numeric target field, it
\* returns (0, 0).
C18_FieldsAfterLastParen ==
  (ppc = "returned" /\ proc_pid_stat.access = "ok") =>
    /\ (proc_pid_stat.closed /\ proc_pid_stat.nf >= 13 /\ BothNumeric)
         => cpu_time = <<proc_pid_stat.utime.ticks[1], proc_pid_stat.stime.ticks[1]>>
    /\ (proc_pid_stat.closed /\ (proc_pid_stat.nf < 13 \/ ~BothNumeric))
         => cpu_time = <<0, 0>>
    /\ (~proc_pid_stat.closed /\ ~NameHasClose)
         => cpu_time = <<0, 0>>

\* the name ') ' : the first ')' is inside the name and a space follows it
C18_Witness ==
  /\ ppc = "returned" /\ proc_pid_stat.access = "ok"
  /\ proc_pid_stat.name = <<")", " ">> /\ proc_pid_stat.closed
  /\ proc_pid_stat.nf = 14
  /\ cpu_time = <<42, 7>>

\* the global counter source cannot be read: missing, or no marker
Unreadable(file) == ~file.exists \/ file.marker # "cpu"

\* C19: a failed read of the global counter source, at either snapshot,
\* ends sample_cpu_usage and get_top_processes in an error that reaches the
\* caller, and no sample is returned; stalled counters return normally
\* with an overall of 0.0.  An error and a returned sample exclude each
\* other, and the only errors are failed reads.
C19_FailedReadIsAnError ==
  /\ [][(pc \in {"stat_start", "stat_end"} /\ pc' # pc /\ Unreadable(proc_stat')) =>
          /\ pc' = "error"
          /\ raised' = "RuntimeError"
          /\ sample_overall' = None /\ process_usage' = None
          /\ overall_cpu_percent' = None /\ top_processes' = None]_<<pc, vars>>
  /\ [](pc \in {"error", "warned"} =>
          /\ raised = "RuntimeError" /\ Unreadable(proc_stat)
          /\ sample_overall = None /\ process_usage = None)
  /\ [](Sampled => raised = None /\ ~Unreadable(proc_stat))
  /\ [](Sampled /\ GlobalDelta = 0 => sample_overall = <<0, 1>>)

\* the second snapshot finds a first line that does not start with the marker
C19_Witness ==
  /\ pc = "error" /\ raised = "RuntimeError"
  /\ io_log = <<"stat", "procs", "sleep", "stat">>
  /\ proc_stat.exists /\ proc_stat.marker = "intr"
  /\ sample_overall = None

\* the reads and the suspend of one complete call
Measurement == <<"stat", "procs", "sleep", "stat", "procs">>
IsPrefix(s, t) == Len(s) <= Len(t) /\ SubSeq(t, 1, Len(s)) = s

\* C20: one call of sample_cpu_usage reads the global counters, then the
\* processes, suspends once, reads the global counters again, then the
\* processes, and only then computes: the global source is read exactly
\* twice, never a second time before the suspend; if the first global read
\* fails there is no suspend and no further read.
C20_OnePairedMeasurement ==
  /\ [](IsPrefix(io_log, Measurement))
  /\ [][Len(io_log') <= Len(io_log) + 1]_<<pc, vars>>
  /\ [](pc \in {"compute", "sampled", "done"} => io_log = Measurement)
  /\ [][(pc = "stat_start" /\ pc' = "error") => io_log' = <<"stat">>]_<<pc, vars>>
  /\ [][(pc \in {"error", "warned"}) => io_log' = io_log]_<<pc, vars>>

\* a complete call: five entries, the suspend in the middle
C20_Witness ==
  /\ pc = "done" /\ io_log = Measurement
  /\ overall_cpu_percent # None

\* C21: for every pair of global snapshots, a pair in which some counter is
\* lower in the after snapshot while the grand total advances included,
\* the overall percent sample_cpu_usage returns is never negative and
\* never above 100.
C21_AlwaysInRange ==
  Sampled =>
    /\ sample_overall[1] * sample_overall[2] >= 0
    /\ sample_overall[1] <= 100 * sample_overall[2]

\* generate_diagnosis has returned a Diagnosis
Returned == dpc = "done"

\* C22: every Diagnosis returned by generate_diagnosis that has at least
\* one recommendation also has at least one issue.
C22_RecommendationHasIssue ==
  (Returned /\ Len(diagnosis.recommendations) >= 1) => Len(diagnosis.issues) >= 1

\* a GPU at 5 W and 12% CPU: the only issue is the one behind the only
\* recommendation
C22_Witness ==
  /\ Returned /\ is_discharging
  /\ power_watts = <<5>> /\ overall_cpu_percent = <<12, 1>>
  /\ Len(diagnosis.recommendations) = 1
  /\ Len(diagnosis.issues) = 1
  /\ diagnosis.issues[1].text = "Dedicated GPU is active while on battery"

\* C23: in every Diagnosis returned by generate_diagnosis the overall
\* severity is at least as high as the severity tag of every issue.
C23_SeverityCoversIssues ==
  Returned =>
    \A i \in 1..Len(diagnosis.issues) :
      Rank(diagnosis.severity) >= Rank(diagnosis.issues[i].severity)

====
